---- MODULE Spec2Model ----
(***************************************************************************)
(* Batch generation of HTML proposals (scripts/generate-html.js).          *)
(*                                                                         *)
(* The "ladder" variant (the second script of src/scripts/generate-html.js,*)
(* lines 113-382) reads every .json record of data/proposals, sends each   *)
(* to the generation service with a descending list of output-token        *)
(* limits, validates the returned text, writes it under a name derived     *)
(* from the record, and ends by writing generation-summary.json and        *)
(* setting the exit status.                                                *)
(*                                                                         *)
(* Strings are sequences of one-character strings, so that replace,        *)
(* includes, toLowerCase and trim are computed as JavaScript computes      *)
(* them.  The character "NL" stands for the line feed and "BT" for the     *)
(* backtick.                                                               *)
(***************************************************************************)
EXTENDS Integers, Sequences, FiniteSets, TLC

\* ---------------------------------------------------------------- bounds

\* The largest number of directory entries of data/proposals in one run.
MaxFiles == 2

\* The largest number of pieces of a file name before its .json extension,
\* where the output file name is derived for arbitrary records.
MaxNameLen == 2

\* ------------------------------------------------------- string helpers

\* The value of a property an object does not have (no string of characters
\* equals it).
Undefined == <<"undefined">>

\* True iff p occurs in s at position k.
MatchAt(s, p, k) ==
    /\ k >= 1
    /\ k + Len(p) - 1 <= Len(s)
    /\ \A j \in 1..Len(p) : s[k + j - 1] = p[j]

\* String.prototype.indexOf, 1-based; 0 when p does not occur.
IndexOf(s, p) ==
    LET hits == { k \in 1..(Len(s) + 1) : MatchAt(s, p, k) }
    IN  IF hits = {} THEN 0
        ELSE CHOOSE k \in hits : \A m \in hits : k <= m

\* String.prototype.includes.
Includes(s, p) == IndexOf(s, p) # 0

\* String.prototype.endsWith.
EndsWith(s, p) == MatchAt(s, p, Len(s) - Len(p) + 1)

\* String.prototype.replace with a string pattern: the first occurrence only.
ReplaceFirst(s, p, r) ==
    LET k == IndexOf(s, p)
    IN  IF k = 0 THEN s
        ELSE SubSeq(s, 1, k - 1) \o r \o SubSeq(s, k + Len(p), Len(s))

UpperCase == <<"A","B","C","D","E","F","G","H","I","J","K","L","M",
               "N","O","P","Q","R","S","T","U","V","W","X","Y","Z">>
LowerCase == <<"a","b","c","d","e","f","g","h","i","j","k","l","m",
               "n","o","p","q","r","s","t","u","v","w","x","y","z">>

LowerChar(c) ==
    IF \E k \in 1..Len(UpperCase) : UpperCase[k] = c
    THEN LowerCase[CHOOSE k \in 1..Len(UpperCase) : UpperCase[k] = c]
    ELSE c

\* String.prototype.toLowerCase.
ToLowerCase(s) == [k \in 1..Len(s) |-> LowerChar(s[k])]

\* The character class [a-z0-9].
IsLowerAlnum(c) ==
    c \in { "a","b","c","d","e","f","g","h","i","j","k","l","m",
            "n","o","p","q","r","s","t","u","v","w","x","y","z",
            "0","1","2","3","4","5","6","7","8","9" }

IsSpace(c) == c \in { " ", "NL" }

\* String.prototype.trim.
RECURSIVE TrimLeft(_)
TrimLeft(s) ==
    IF s # <<>> /\ IsSpace(Head(s)) THEN TrimLeft(Tail(s)) ELSE s

RECURSIVE TrimRight(_)
TrimRight(s) ==
    IF s # <<>> /\ IsSpace(s[Len(s)])
    THEN TrimRight(SubSeq(s, 1, Len(s) - 1))
    ELSE s

Trim(s) == TrimRight(TrimLeft(s))

\* ------------------------------------------------------ string literals

DotJson   == <<".","j","s","o","n">>
DotHtml   == <<".","h","t","m","l">>
Fence     == <<"BT","BT","BT">>
FenceHtml == <<"BT","BT","BT","h","t","m","l">>
Doctype   == <<"<","!","D","O","C","T","Y","P","E"," ","h","t","m","l",">">>
HtmlTag   == <<"<","h","t","m","l">>
KwToken   == <<"t","o","k","e","n">>
KwLimit   == <<"l","i","m","i","t">>
KwInvalid == <<"I","N","V","A","L","I","D","_","A","R","G","U","M","E","N","T">>

\* ------------------------------------------------- the source store

\* A record with no organization name at all.
NoCompany ==
    [parses |-> TRUE,
     company_name |-> Undefined, companyName |-> Undefined, company |-> Undefined]

\* The content of a file that JSON.parse rejects (or that cannot be read).
Unparseable == [NoCompany EXCEPT !.parses = FALSE]

NameAcme == <<"a","c","m","e">> \o DotJson
NameBeta == <<"B","e","t","a","-","1">> \o DotJson
NameX    == <<"x">> \o DotJson
NameBad  == <<"b","a","d">> \o DotJson
NameMd   == <<"n",".","m","d">>

\* The directory entries a run may find in data/proposals.
CatalogueNames == { NameAcme, NameBeta, NameX, NameBad, NameMd }

\* What each entry holds.  acme.json declares company_name and companyName,
\* Beta-1.json declares no organization name, x.json has an empty
\* company_name and a company that normalises like acme.json's.
CatalogueData(name) ==
    CASE name = NameAcme ->
           [NoCompany EXCEPT !.company_name = <<"A","c","m","e"," ","C","o",".">>,
                             !.companyName  = <<"Z","e","d">>]
      [] name = NameBeta -> NoCompany
      [] name = NameX ->
           [NoCompany EXCEPT !.company_name = <<>>,
                             !.company = <<"A","C","M","E","-","c","o">>]
      [] OTHER -> Unparseable

\* Injective sequences of at most n directory entries: what readdirSync returns.
Listings(n) ==
    { l \in UNION { [1..k -> CatalogueNames] : k \in 0..n } :
        \A a, b \in 1..Len(l) : a # b => l[a] # l[b] }

\* ------------------------------------------- the generation service

TextPlain  == Doctype \o <<"<","p",">">>
TextFenced == FenceHtml \o <<"NL">> \o TextPlain \o <<"NL">> \o Fence
TextUpper  == <<" ","<","H","T","M","L",">","NL">>
TextProse  == <<"h","i">>
TextFenceOnly == FenceHtml \o <<"NL">> \o Fence
TextBlank  == <<" ","NL">>
TextLowerDoctype ==
    <<"<","!","d","o","c","t","y","p","e"," ","h","t","m","l",">">>

\* candidate.finishReason when the service sends none.
NoFinishReason == "undefined"

\* A candidate without content.
NoContent(fr) ==
    [finishReason |-> fr, hasContent |-> FALSE, parts |-> <<>>]

\* A candidate of the response body: content.parts holds at most one text.
Candidate(fr, parts) ==
    [finishReason |-> fr, hasContent |-> TRUE, parts |-> parts]

\* The bodies an OK response may carry.
Bodies ==
    { [json |-> FALSE, candidates |-> <<>>],
      [json |-> TRUE,  candidates |-> <<>>],
      [json |-> TRUE,
       candidates |-> <<NoContent("SAFETY")>>] }
    \cup { [json |-> TRUE, candidates |-> <<Candidate("STOP", p)>>] :
             p \in { <<TextPlain>>, <<TextFenced>>, <<TextUpper>>, <<TextProse>>,
                     <<TextFenceOnly>>, <<TextBlank>>, <<TextLowerDoctype>>,
                     <<>> } }
    \cup { [json |-> TRUE, candidates |-> <<Candidate("MAX_TOKENS", p)>>] :
             p \in { <<TextPlain>>, <<TextProse>>, <<>> } }
    \cup { [json |-> TRUE, candidates |-> <<Candidate(fr, <<TextPlain>>)>>] :
             fr \in { NoFinishReason, "END_TURN", "RECITATION", "SAFETY" } }

NoBody == [json |-> FALSE, candidates |-> <<>>]

\* What one fetch may end with: an HTTP response, or a thrown network error.
HttpErrors ==
    { [kind |-> "http", ok |-> FALSE, status |-> st[1], errorText |-> st[2],
       body |-> NoBody] :
        st \in { <<400, <<"b","a","d">> >>,
                 <<500, <<"n","o"," ">> \o KwToken \o <<"s">> >>,
                 <<429, <<"r","a","t","e"," ">> \o KwLimit >>,
                 <<500, KwInvalid>>,
                 <<500, <<"o","o","p","s">> >> } }

OkResponses ==
    { [kind |-> "http", ok |-> TRUE, status |-> 200, errorText |-> <<>>,
       body |-> b] : b \in Bodies }

NetworkError ==
    [kind |-> "throw", ok |-> FALSE, status |-> 0, errorText |-> <<>>,
     body |-> NoBody]

Responses == HttpErrors \cup OkResponses \cup { NetworkError }

\* The value of `response` before the first fetch resolves.
NoResponse == [kind |-> "none", ok |-> FALSE, status |-> 0, errorText |-> <<>>,
               body |-> NoBody]

\* ------------------------------------------------ processProposal

maxRetries == 2

tokenLimits == <<65000, 32000, 16000>>

\* The condition of the retry loop, with i counted from 0 as in the source.
LoopCond(i, ra) == i < Len(tokenLimits) /\ i <= ra

\* "Check if it's a token limit issue".
IsTokenLimitIssue(r) ==
    \/ Includes(r.errorText, KwToken)
    \/ Includes(r.errorText, KwLimit)
    \/ Includes(r.errorText, KwInvalid)
    \/ r.status = 400

NoError == "noerror"
ApiError(status) ==
    CASE status = 400 -> "Gemini API error: 400"
      [] status = 429 -> "Gemini API error: 429"
      [] status = 500 -> "Gemini API error: 500"
      [] OTHER -> "Gemini API error"
FetchFailed == "request failed"

Ctl(c, ra, e) == [ctl |-> c, ra |-> ra, error |-> e]

\* The body of the try block once the fetch has settled with r:
\* "break", "continue", or "throw" with the error thrown.
TryBody(ra, r) ==
    IF r.kind = "throw" THEN Ctl("throw", ra, FetchFailed)
    ELSE IF ~r.ok THEN
        IF IsTokenLimitIssue(r) /\ ra + 1 < maxRetries
        THEN Ctl("continue", ra + 1, NoError)
        ELSE Ctl("throw",
                 IF IsTokenLimitIssue(r) THEN ra + 1 ELSE ra,
                 ApiError(r.status))
    ELSE Ctl("break", ra, NoError)

\* A catch block that retries whatever retryAttempt says.
CatchBlock_AlwaysRetry(t) ==
    IF t.ctl # "throw" THEN t
    ELSE Ctl("continue", t.ra + 1, NoError)

\* The catch block of the retry loop, applied to what the try block did.
CatchBlock(t) ==
    IF t.ctl # "throw" THEN t
    ELSE IF t.ra < maxRetries - 1
         THEN Ctl("continue", t.ra + 1, NoError)
         ELSE Ctl("rethrow", t.ra, t.error)

\* Clean up any markdown code fences, then trim.
StripFences(s) ==
    LET s1 == IF Len(s) >= 7 /\ ToLowerCase(SubSeq(s, 1, 7)) = FenceHtml
              THEN IF Len(s) >= 8 /\ s[8] = "NL"
                   THEN SubSeq(s, 9, Len(s))
                   ELSE SubSeq(s, 8, Len(s))
              ELSE s
        t  == SubSeq(s1, 1, Len(s1) - 3)
        s2 == IF EndsWith(s1, Fence)
              THEN IF t # <<>> /\ t[Len(t)] = "NL"
                   THEN SubSeq(t, 1, Len(t) - 1)
                   ELSE t
              ELSE s1
    IN  Trim(s2)

\* A check that only warns, as the older scripts do.
LooksLikeHTML_WarnOnly(html) == TRUE

\* "Verify HTML looks valid": the negation of the condition that throws.
LooksLikeHTML(html) ==
    Includes(html, Doctype) \/ Includes(ToLowerCase(html), HtmlTag)

Truthy(v) == v # Undefined /\ v # <<>>

\* The derivation of the older scripts, which do not read `company`.
OutputFilename_NoCompany(data, filename) ==
    LET companyName ==
            IF Truthy(data.company_name) THEN data.company_name
            ELSE IF Truthy(data.companyName) THEN data.companyName
            ELSE ReplaceFirst(filename, DotJson, <<>>)
    IN  SelectSeq(ToLowerCase(companyName), IsLowerAlnum) \o DotHtml

\* "Determine output filename".
OutputFilename(data, filename) ==
    LET companyName ==
            IF Truthy(data.company_name) THEN data.company_name
            ELSE IF Truthy(data.companyName) THEN data.companyName
            ELSE IF Truthy(data.company) THEN data.company
            ELSE ReplaceFirst(filename, DotJson, <<>>)
    IN  SelectSeq(ToLowerCase(companyName), IsLowerAlnum) \o DotHtml

Thrown(e) == [threw |-> TRUE, error |-> e, output |-> <<>>, html |-> <<>>,
              finishReason |-> NoFinishReason]

\* The rest of processProposal once the retry loop is left with `response`:
\* either an error thrown before the write, or the file to write and the
\* finish reason to report.
AfterLoop(filename, data, resp) ==
    IF resp.kind = "none" \/ ~resp.ok
    THEN Thrown("Failed to get valid response from Gemini after all retries")
    ELSE IF ~resp.body.json
    THEN Thrown("invalid json response body")
    ELSE IF resp.body.candidates = <<>>
            \/ ~resp.body.candidates[1].hasContent
    THEN Thrown("Invalid Gemini response")
    ELSE LET candidate == resp.body.candidates[1]
             finishReason == candidate.finishReason
         IN  IF finishReason = "SAFETY"
             THEN Thrown("Content was blocked by safety filters")
             ELSE IF candidate.parts = <<>>
             THEN Thrown("TypeError: cannot read text of undefined")
             ELSE LET html == StripFences(candidate.parts[1])
                  IN  IF ~LooksLikeHTML(html)
                      THEN Thrown("Invalid HTML output from Gemini")
                      ELSE [threw |-> FALSE, error |-> NoError,
                            output |-> OutputFilename(data, filename),
                            html |-> html,
                            finishReason |->
                                IF finishReason = NoFinishReason THEN "STOP"
                                ELSE finishReason]

\* SuccessResult without the finish reason of the candidate.
SuccessResult_NoFlag(filename, out) ==
    [input |-> filename, success |-> TRUE, output |-> out.output,
     finishReason |-> "STOP", error |-> NoError]

\* The object processProposal returns (its url, sizeKB, hasLogo and
\* hasTagline, which only report on the file written, are left out).
SuccessResult(filename, out) ==
    [input |-> filename, success |-> TRUE, output |-> out.output,
     finishReason |-> out.finishReason, error |-> NoError]

\* A catch that reports the record as generated.
FailureResult_AsSuccess(filename, e) ==
    [input |-> filename, success |-> TRUE, output |-> <<>>,
     finishReason |-> "STOP", error |-> NoError]

\* The entry the main loop's catch pushes.
FailureResult(filename, e) ==
    [input |-> filename, success |-> FALSE, output |-> <<>>,
     finishReason |-> NoFinishReason, error |-> e]

\* ------------------------------------------------------------- state

VARIABLES
    proposalsDir,   \* data/proposals: its entries in directory-listing order
    outputDir,      \* public/proposal: artifact name -> text
    jsonFiles,      \* the selected identifiers, in order
    results,        \* the per-record results pushed so far
    idx,            \* position of the for-of loop in jsonFiles (1-based)
    pc,             \* "loop", "awaitFetch", "hung", "summarized", "exited"
    proposalData,   \* processProposal: the parsed record
    i,              \* processProposal: index into tokenLimits (0-based)
    retryAttempt,   \* processProposal: retryAttempt
    response,       \* processProposal: response
    calls,          \* the maxOutputTokens of each fetch issued for this record
    outcomes,       \* what each of those fetches settled with
    writes,         \* the artifact writes made while processing this record
    outstanding,    \* fetches issued and not yet settled
    summary,        \* generation-summary.json
    summaryWrites,  \* how many times the summary was written
    exitCode,       \* the process exit code
    changeList,     \* the change list: via "env" it is CHANGED_FILES (ok says
                    \* whether it is set), via "git" what git diff
                    \* --name-only printed (ok says whether git ran)
    run             \* 1 for the first run of the script, 2 for a repeat

vars == <<proposalsDir, outputDir, jsonFiles, results, idx, pc, proposalData,
          i, retryAttempt, response, calls, outcomes, writes, outstanding,
          summary, summaryWrites, exitCode, changeList, run>>

locals == <<proposalData, i, retryAttempt, response, calls, outcomes, writes>>

NoFiles == [n \in {} |-> <<>>]

\* A write that leaves an existing file as it is.
WriteFile_KeepExisting(dir, name, text) ==
    [n \in (DOMAIN dir) \cup {name} |-> IF n \in DOMAIN dir THEN dir[n] ELSE text]

\* No change list: CHANGED_FILES is not set, or git diff could not be run.
NoChangeList == [via |-> "none", ok |-> FALSE, text |-> <<>>]

\* fs.writeFileSync: create or overwrite.
WriteFile(dir, name, text) ==
    [n \in (DOMAIN dir) \cup {name} |-> IF n = name THEN text ELSE dir[n]]

NoSummary == [written |-> FALSE, results |-> <<>>]

\* readdirSync(proposalsDir).filter(file => file.endsWith('.json'))
JsonFilesOf(dir) ==
    LET names == [k \in 1..Len(dir) |-> dir[k].name]
        IsJson(n) == EndsWith(n, DotJson)
    IN  SelectSeq(names, IsJson)

\* JSON.parse(fs.readFileSync(jsonPath)): a missing file throws like a bad one.
ReadRecord(dir, filename) ==
    IF \E k \in 1..Len(dir) : dir[k].name = filename
    THEN dir[CHOOSE k \in 1..Len(dir) : dir[k].name = filename].data
    ELSE Unparseable

\* The state once the module has loaded: the directory is listed, nothing
\* is processed yet.
Init ==
    /\ proposalsDir \in
         { [k \in 1..Len(l) |-> [name |-> l[k], data |-> CatalogueData(l[k])]] :
             l \in Listings(MaxFiles) }
    /\ outputDir = NoFiles
    /\ jsonFiles = JsonFilesOf(proposalsDir)
    /\ results = <<>>
    /\ idx = 1
    /\ pc = "loop"
    /\ proposalData = NoCompany
    /\ i = 0
    /\ retryAttempt = 0
    /\ response = NoResponse
    /\ calls = <<>>
    /\ outcomes = <<>>
    /\ writes = 0
    /\ outstanding = 0
    /\ summary = NoSummary
    /\ summaryWrites = 0
    /\ exitCode = 0
    /\ changeList = NoChangeList
    /\ run = 1

\* A push that puts the newest result first.
Push_Front(rs, r) == <<r>> \o rs

\* results.push
Push(rs, r) == Append(rs, r)

\* The main loop takes the next file and calls processProposal, which runs
\* to its first await: the record is read and parsed and the first fetch is
\* issued.  A read or parse error is caught by the loop and pushed.
StartRecord ==
    /\ pc = "loop"
    /\ idx <= Len(jsonFiles)
    /\ LET file == jsonFiles[idx]
           data == ReadRecord(proposalsDir, file)
       IN  /\ proposalData' = data
           /\ i' = 0
           /\ retryAttempt' = 0
           /\ response' = NoResponse
           /\ outcomes' = <<>>
           /\ writes' = 0
           /\ IF ~data.parses
              THEN /\ results' = Push(results, FailureResult(file, "JSON parse error"))
                   /\ idx' = idx + 1
                   /\ calls' = <<>>
                   /\ UNCHANGED <<pc, outstanding>>
              ELSE IF LoopCond(0, 0)
              THEN /\ calls' = <<tokenLimits[1]>>
                   /\ outstanding' = outstanding + 1
                   /\ pc' = "awaitFetch"
                   /\ UNCHANGED <<results, idx>>
              ELSE /\ results' =
                        Push(results, FailureResult(file,
                                 AfterLoop(file, data, NoResponse).error))
                   /\ idx' = idx + 1
                   /\ calls' = <<>>
                   /\ UNCHANGED <<pc, outstanding>>
    /\ UNCHANGED <<changeList, run>>
    /\ UNCHANGED <<proposalsDir, outputDir, jsonFiles, summary, summaryWrites,
                   exitCode>>

\* A main loop without the inner try/catch: a throw leaves the loop.
Complete_NoCatch(file, r) ==
    IF r.success
    THEN /\ results' = Push(results, r)
         /\ idx' = idx + 1
         /\ pc' = "loop"
    ELSE /\ pc' = "exited"
         /\ UNCHANGED <<results, idx>>

\* processProposal returns or throws: the main loop pushes the result and
\* moves to the next file.
Complete(file, r) ==
    /\ results' = Push(results, r)
    /\ idx' = idx + 1
    /\ pc' = "loop"

\* The awaited fetch settles with r; processProposal runs on to its next
\* await (the next fetch) or to its end.  fsOk says whether writeFileSync
\* succeeds when the run reaches it.
FetchSettles ==
    /\ pc = "awaitFetch"
    /\ \E r \in Responses :
       \E t \in { CatchBlock(TryBody(retryAttempt, r)) } :
         LET file == jsonFiles[idx]
             resp == IF r.kind = "throw" THEN response ELSE r
         IN  /\ outcomes' = Append(outcomes, r)
             /\ response' = resp
             /\ retryAttempt' = t.ra
             /\ IF t.ctl = "continue" /\ LoopCond(i + 1, t.ra)
                THEN /\ i' = i + 1
                     /\ calls' = Append(calls, tokenLimits[i + 2])
                     /\ UNCHANGED <<results, idx, pc, outstanding, outputDir,
                                    writes>>
                ELSE /\ i' = IF t.ctl = "continue" THEN i + 1 ELSE i
                     /\ outstanding' = outstanding - 1
                     /\ UNCHANGED calls
                     /\ IF t.ctl = "rethrow"
                        THEN /\ Complete(file, FailureResult(file, t.error))
                             /\ UNCHANGED <<outputDir, writes>>
                        ELSE \E out \in { AfterLoop(file, proposalData, resp) } :
                             IF out.threw
                             THEN /\ Complete(file, FailureResult(file, out.error))
                                  /\ UNCHANGED <<outputDir, writes>>
                             ELSE \E fsOk \in BOOLEAN :
                                  IF fsOk
                                  THEN /\ outputDir' =
                                            WriteFile(outputDir, out.output, out.html)
                                       /\ writes' = writes + 1
                                       /\ Complete(file, SuccessResult(file, out))
                                  ELSE /\ Complete(file,
                                             FailureResult(file, "write failed"))
                                       /\ UNCHANGED <<outputDir, writes>>
    /\ UNCHANGED <<changeList, run>>
    /\ UNCHANGED <<proposalsDir, jsonFiles, proposalData, summary,
                   summaryWrites, exitCode>>

\* The service never answers the outstanding fetch.  The fetch carries no
\* timeout and no abort signal, so nothing resumes processProposal.
ServiceHangs ==
    /\ pc = "awaitFetch"
    /\ pc' = "hung"
    /\ UNCHANGED <<changeList, run>>
    /\ UNCHANGED <<proposalsDir, outputDir, jsonFiles, results, idx, locals,
                   outstanding, summary, summaryWrites, exitCode>>

\* The filter with its test inverted.
Failures_Inverted(rs) ==
    LET Ok(r) == r.success
    IN  SelectSeq(rs, Ok)

\* results.filter(r => !r.success)
Failures(rs) ==
    LET Failed(r) == ~r.success
    IN  SelectSeq(rs, Failed)

\* A summary that lists the successes only.
SummaryOf_SuccessesOnly(rs) ==
    LET Ok(r) == r.success
    IN  [written |-> TRUE, results |-> SelectSeq(rs, Ok)]

\* The summary object that is serialised: its results are `results`.
SummaryOf(rs) == [written |-> TRUE, results |-> rs]

\* After the loop: the summary is written.  If writeFileSync throws, the
\* outer catch ends the process with status 1.  The locals of the last
\* processProposal call are out of scope.
WriteSummary ==
    /\ pc = "loop"
    /\ idx > Len(jsonFiles)
    /\ \E fsOk \in BOOLEAN :
         IF fsOk
         THEN /\ summary' = SummaryOf(results)
              /\ summaryWrites' = summaryWrites + 1
              /\ pc' = "summarized"
              /\ UNCHANGED exitCode
         ELSE /\ exitCode' = 1
              /\ pc' = "exited"
              /\ UNCHANGED <<summary, summaryWrites>>
    /\ proposalData' = NoCompany
    /\ i' = 0
    /\ retryAttempt' = 0
    /\ response' = NoResponse
    /\ calls' = <<>>
    /\ outcomes' = <<>>
    /\ writes' = 0
    /\ UNCHANGED <<changeList, run>>
    /\ UNCHANGED <<proposalsDir, outputDir, jsonFiles, results, idx,
                   outstanding>>

\* "Exit with error if any failed".
ExitStatus ==
    /\ pc = "summarized"
    /\ exitCode' = IF Len(Failures(results)) > 0 THEN 1 ELSE exitCode
    /\ pc' = "exited"
    /\ UNCHANGED <<changeList, run>>
    /\ UNCHANGED <<proposalsDir, outputDir, jsonFiles, results, idx, locals,
                   outstanding, summary, summaryWrites>>

Next ==
    \/ StartRecord
    \/ FetchSettles
    \/ ServiceHangs
    \/ WriteSummary
    \/ ExitStatus

Spec == Init /\ [][Next]_vars

\* The event loop runs every continuation that is ready; the service is not
\* obliged to answer.
FairSpec ==
    Spec /\ WF_vars(StartRecord) /\ WF_vars(FetchSettles)
         /\ WF_vars(WriteSummary) /\ WF_vars(ExitStatus)

\* ----------------------------------- deriving the output file name

\* File names start with a letter, go on with at most MaxNameLen of these
\* pieces and end in .json.
NamePieces == { <<"a">>, <<"B">>, <<"-">>, <<"1">>, DotJson }

RECURSIVE Flatten(_)
Flatten(ss) == IF ss = <<>> THEN <<>> ELSE Head(ss) \o Flatten(Tail(ss))

AnyNames ==
    { <<"a">> \o Flatten(ps) \o DotJson :
        ps \in UNION { [1..k -> NamePieces] : k \in 0..MaxNameLen } }

\* The values an organization field may hold.
FieldValues == { Undefined, <<>>, <<"A","b">>, <<"c"," ","&","9">> }

AnyData ==
    { [parses |-> TRUE, company_name |-> a, companyName |-> b, company |-> c] :
        a \in FieldValues, b \in FieldValues, c \in FieldValues }

\* One record of any name and any organization fields, about to be named.
InitName ==
    /\ \E n \in AnyNames, d \in AnyData :
         /\ proposalsDir = <<[name |-> n, data |-> d]>>
         /\ jsonFiles = <<n>>
         /\ proposalData = d
    /\ outputDir = NoFiles
    /\ results = <<>>
    /\ idx = 1
    /\ pc = "naming"
    /\ i = 0
    /\ retryAttempt = 0
    /\ response = NoResponse
    /\ calls = <<>>
    /\ outcomes = <<>>
    /\ writes = 0
    /\ outstanding = 0
    /\ summary = NoSummary
    /\ summaryWrites = 0
    /\ exitCode = 0
    /\ changeList = NoChangeList
    /\ run = 1

\* processProposal derives outputFilename and reports it in its result.
DeriveName ==
    /\ pc = "naming"
    /\ pc' = "named"
    /\ results' =
         Push(results,
              SuccessResult(jsonFiles[idx],
                  [output |-> OutputFilename(proposalData, jsonFiles[idx]),
                   finishReason |-> "STOP"]))
    /\ UNCHANGED <<changeList, run>>
    /\ UNCHANGED <<proposalsDir, outputDir, jsonFiles, idx, proposalData, i,
                   retryAttempt, response, calls, outcomes, writes,
                   outstanding, summary, summaryWrites, exitCode>>

NameNext == DeriveName

NameSpec == InitName /\ [][NameNext]_vars

\* --------------------------------------- selecting the changed files

\* A change list holds at most MaxLines lines.
MaxLines == 2

DataProposals ==
    <<"d","a","t","a","/","p","r","o","p","o","s","a","l","s","/">>

\* The lines a change list may hold: two records of the catalogue, a file
\* of the same name in a subdirectory, a record that was deleted, a .json
\* file that is not a proposal, a file that is not .json, and a line with
\* a trailing blank.
ChangedLines ==
    { DataProposals \o NameAcme,
      DataProposals \o NameX,
      DataProposals \o <<"o","l","d","/">> \o NameAcme,
      DataProposals \o <<"g","o","n","e">> \o DotJson,
      <<"p","a","c","k","a","g","e">> \o DotJson,
      <<"R","E","A","D","M","E",".","m","d">>,
      DataProposals \o NameX \o <<" ">> }

\* Lines joined by line feeds.
RECURSIVE Join(_)
Join(ls) ==
    IF ls = <<>> THEN <<>>
    ELSE IF Len(ls) = 1 THEN ls[1]
    ELSE ls[1] \o <<"NL">> \o Join(Tail(ls))

\* The change lists a run may be given, with or without a final line feed.
ChangeLists ==
    { [via |-> v, ok |-> FALSE, text |-> <<>>] : v \in { "env", "git" } }
    \cup { [via |-> v, ok |-> TRUE, text |-> Join(ls) \o end] :
              v \in { "env", "git" },
              ls \in UNION { [1..k -> ChangedLines] : k \in 0..MaxLines },
              end \in { <<>>, <<"NL">> } }

\* String.prototype.split on a line feed.
RECURSIVE Split(_)
Split(s) ==
    LET k == IndexOf(s, <<"NL">>)
    IN  IF k = 0 THEN <<s>>
        ELSE <<SubSeq(s, 1, k - 1)>> \o Split(SubSeq(s, k + 1, Len(s)))

\* path.basename of a path that does not end in a slash.
RECURSIVE Basename(_)
Basename(f) ==
    LET k == IndexOf(f, <<"/">>)
    IN  IF k = 0 THEN f ELSE Basename(SubSeq(f, k + 1, Len(f)))

\* CHANGED_FILES.split, trim, filter on .json, basename.
ChangedFromEnv(text) ==
    LET lines == Split(text)
        trimmed == [k \in 1..Len(lines) |-> Trim(lines[k])]
        IsJson(f) == EndsWith(f, DotJson)
        kept == SelectSeq(trimmed, IsJson)
    IN  [k \in 1..Len(kept) |-> Basename(kept[k])]

\* gitDiff.split, filter on data/proposals/ and .json, basename.
ChangedFromGit(text) ==
    LET lines == Split(text)
        IsProposal(f) == MatchAt(f, DataProposals, 1) /\ EndsWith(f, DotJson)
        kept == SelectSeq(lines, IsProposal)
    IN  [k \in 1..Len(kept) |-> Basename(kept[k])]

\* A selector that keeps an empty selection.
OrAll_NoFallback(files, dir) == files

\* "Fallback to all files if none specified".
OrAll(files, dir) ==
    IF Len(files) = 0 THEN JsonFilesOf(dir) ELSE files

\* The script is about to select: one store, one change list.
SelInit ==
    /\ proposalsDir \in
         { [k \in 1..Len(l) |-> [name |-> l[k], data |-> CatalogueData(l[k])]] :
             l \in Listings(MaxFiles) }
    /\ changeList \in ChangeLists
    /\ outputDir = NoFiles
    /\ jsonFiles = <<>>
    /\ results = <<>>
    /\ idx = 1
    /\ pc = "select"
    /\ proposalData = NoCompany
    /\ i = 0
    /\ retryAttempt = 0
    /\ response = NoResponse
    /\ calls = <<>>
    /\ outcomes = <<>>
    /\ writes = 0
    /\ outstanding = 0
    /\ summary = NoSummary
    /\ summaryWrites = 0
    /\ exitCode = 0
    /\ run = 1

\* The CHANGED_FILES script fills filesToProcess.
SelectChangedFiles ==
    /\ pc = "select"
    /\ changeList.via = "env"
    /\ jsonFiles' =
         OrAll(IF changeList.ok /\ changeList.text # <<>>
               THEN ChangedFromEnv(changeList.text)
               ELSE <<>>,
               proposalsDir)
    /\ idx' = 1
    /\ pc' = "loop"
    /\ UNCHANGED <<proposalsDir, outputDir, results, locals, outstanding,
                   summary, summaryWrites, exitCode, changeList, run>>

\* The git-diff script fills changedFiles; when git cannot be run the
\* catch block takes every record.
SelectGitDiff ==
    /\ pc = "select"
    /\ changeList.via = "git"
    /\ jsonFiles' =
         OrAll(IF changeList.ok
               THEN ChangedFromGit(changeList.text)
               ELSE JsonFilesOf(proposalsDir),
               proposalsDir)
    /\ idx' = 1
    /\ pc' = "loop"
    /\ UNCHANGED <<proposalsDir, outputDir, results, locals, outstanding,
                   summary, summaryWrites, exitCode, changeList, run>>

SelNext == SelectChangedFiles \/ SelectGitDiff

SelSpec == SelInit /\ [][SelNext]_vars

\* ------------------------------- the changed-files scripts: the run

\* s.replace(/p\n?/g, ''): every occurrence of p, with the line feed that
\* follows it, is removed.
RECURSIVE RemoveAll(_, _)
RemoveAll(s, p) ==
    IF s = <<>> THEN <<>>
    ELSE IF MatchAt(s, p, 1)
    THEN LET rest == SubSeq(s, Len(p) + 1, Len(s))
         IN  RemoveAll(IF rest # <<>> /\ Head(rest) = "NL" THEN Tail(rest)
                       ELSE rest, p)
    ELSE <<Head(s)>> \o RemoveAll(Tail(s), p)

\* Every opening html fence is removed, then a fence at the very end of
\* the text, then the text is trimmed.
StripFencesTail(s) ==
    LET s1 == RemoveAll(s, FenceHtml)
        s2 == IF EndsWith(s1, Fence \o <<"NL">>)
              THEN SubSeq(s1, 1, Len(s1) - 4)
              ELSE IF EndsWith(s1, Fence)
              THEN SubSeq(s1, 1, Len(s1) - 3)
              ELSE s1
    IN  Trim(s2)

\* "Create output filename": company_name, else the file name.
ChangedOutputFilename(data, filename) ==
    LET companyName ==
            IF Truthy(data.company_name) THEN data.company_name
            ELSE ReplaceFirst(filename, DotJson, <<>>)
    IN  SelectSeq(ToLowerCase(companyName), IsLowerAlnum) \o DotHtml

ChangedApiError(status) ==
    CASE status = 400 -> "API error: 400"
      [] status = 429 -> "API error: 429"
      [] status = 500 -> "API error: 500"
      [] OTHER -> "API error"

\* The try block of processProposal once the fetch has settled with r:
\* an error thrown before the write, or the file to write.
ChangedTry(filename, data, r) ==
    IF r.kind = "throw" THEN Thrown(FetchFailed)
    ELSE IF ~r.ok THEN Thrown(ChangedApiError(r.status))
    ELSE IF ~r.body.json THEN Thrown("invalid json response body")
    ELSE IF r.body.candidates = <<>> THEN Thrown("No response from model")
    ELSE IF \/ ~r.body.candidates[1].hasContent
            \/ r.body.candidates[1].parts = <<>>
    THEN Thrown("TypeError: cannot read properties of undefined")
    ELSE [threw |-> FALSE, error |-> NoError,
          output |-> ChangedOutputFilename(data, filename),
          html |-> StripFencesTail(r.body.candidates[1].parts[1]),
          finishReason |-> r.body.candidates[1].finishReason]

\* What processProposal returns.
ChangedResult(filename, ok, e) ==
    [filename |-> filename, success |-> ok, error |-> e]

\* The ceiling of the one call these scripts make.
ChangedTokens == 32000

\* The change lists of the runs that are followed to their end.
ChangedRuns ==
    { [via |-> v, ok |-> TRUE, text |-> Join(ls)] :
        v \in { "env", "git" },
        ls \in { <<DataProposals \o <<"g","o","n","e">> \o DotJson,
                   DataProposals \o NameAcme>>,
                 <<DataProposals \o NameBad, DataProposals \o NameX>>,
                 <<DataProposals \o NameAcme, DataProposals \o NameX>>,
                 <<<<"p","a","c","k","a","g","e">> \o DotJson,
                   DataProposals \o NameX>>,
                 <<DataProposals \o NameX>> } }

ChangedInit ==
    /\ proposalsDir \in
         { [k \in 1..Len(l) |-> [name |-> l[k], data |-> CatalogueData(l[k])]] :
             l \in Listings(MaxFiles) }
    /\ changeList \in ChangedRuns
    /\ outputDir = NoFiles
    /\ jsonFiles = <<>>
    /\ results = <<>>
    /\ idx = 1
    /\ pc = "select"
    /\ proposalData = NoCompany
    /\ i = 0
    /\ retryAttempt = 0
    /\ response = NoResponse
    /\ calls = <<>>
    /\ outcomes = <<>>
    /\ writes = 0
    /\ outstanding = 0
    /\ summary = NoSummary
    /\ summaryWrites = 0
    /\ exitCode = 0
    /\ run = 1

\* JSON.parse(fs.readFileSync(jsonPath)) throws before the try block of
\* processProposal: the promise it returned rejects, the await in the main
\* function rethrows and nothing catches it.  The loop is left; the
\* process ends with status 1, or with status 0 on a runtime that only
\* warns about an unhandled rejection.
ReadThrows(file) ==
    /\ pc' = "exited"
    /\ exitCode' \in { 0, 1 }
    /\ UNCHANGED <<results, idx>>

\* The main loop takes the next file and calls processProposal, which runs
\* to its await: the record is read and parsed and the fetch is issued.
ChangedStart ==
    /\ pc = "loop"
    /\ idx <= Len(jsonFiles)
    /\ LET file == jsonFiles[idx]
           data == ReadRecord(proposalsDir, file)
       IN  /\ proposalData' = data
           /\ outcomes' = <<>>
           /\ writes' = 0
           /\ IF ~data.parses
              THEN /\ ReadThrows(file)
                   /\ calls' = <<>>
                   /\ UNCHANGED outstanding
              ELSE /\ calls' = <<ChangedTokens>>
                   /\ outstanding' = outstanding + 1
                   /\ pc' = "awaitFetch"
                   /\ UNCHANGED <<results, idx, exitCode>>
    /\ UNCHANGED <<proposalsDir, outputDir, jsonFiles, i, retryAttempt,
                   response, summary, summaryWrites, changeList, run>>

\* The awaited fetch settles with r; processProposal runs to its end and
\* the main loop pushes what it returned.
ChangedFetchSettles ==
    /\ pc = "awaitFetch"
    /\ \E r \in Responses :
       \E out \in { ChangedTry(jsonFiles[idx], proposalData, r) } :
         LET file == jsonFiles[idx]
         IN  /\ outcomes' = Append(outcomes, r)
             /\ outstanding' = outstanding - 1
             /\ idx' = idx + 1
             /\ pc' = "loop"
             /\ IF out.threw
                THEN /\ results' = Push(results, ChangedResult(file, FALSE, out.error))
                     /\ UNCHANGED <<outputDir, writes>>
                ELSE \E fsOk \in BOOLEAN :
                     IF fsOk
                     THEN /\ outputDir' = WriteFile(outputDir, out.output, out.html)
                          /\ writes' = writes + 1
                          /\ results' = Push(results, ChangedResult(file, TRUE, NoError))
                     ELSE /\ results' =
                               Push(results, ChangedResult(file, FALSE, "write failed"))
                          /\ UNCHANGED <<outputDir, writes>>
    /\ UNCHANGED <<proposalsDir, jsonFiles, proposalData, i, retryAttempt,
                   response, calls, summary, summaryWrites, exitCode,
                   changeList, run>>

\* After the loop: the counts are logged and the process exits with 1 if
\* any record failed.
ChangedExit ==
    /\ pc = "loop"
    /\ idx > Len(jsonFiles)
    /\ exitCode' = IF Len(Failures(results)) > 0 THEN 1 ELSE exitCode
    /\ pc' = "exited"
    /\ proposalData' = NoCompany
    /\ calls' = <<>>
    /\ outcomes' = <<>>
    /\ writes' = 0
    /\ UNCHANGED <<proposalsDir, outputDir, jsonFiles, results, idx, i,
                   retryAttempt, response, outstanding, summary,
                   summaryWrites, changeList, run>>

ChangedNext ==
    \/ SelectChangedFiles
    \/ SelectGitDiff
    \/ ChangedStart
    \/ ChangedFetchSettles
    \/ ChangedExit

ChangedSpec == ChangedInit /\ [][ChangedNext]_vars

\* --------------------------------------- the missing-output script

\* How many times the script is run in a row.
MaxRuns == 2

\* ".replace(/```html\n?/g, '').replace(/```\n?/g, '')": every fence goes.
StripAllFences(s) == RemoveAll(RemoveAll(s, FenceHtml), Fence)

\* The body of the loop once the fetch has settled with r: an error thrown
\* before the write, or the text to write.
GenerateTry(r) ==
    IF r.kind = "throw" THEN Thrown(FetchFailed)
    ELSE IF ~r.ok THEN Thrown(ApiError(r.status))
    ELSE IF ~r.body.json THEN Thrown("invalid json response body")
    ELSE IF \/ r.body.candidates = <<>>
            \/ ~r.body.candidates[1].hasContent
            \/ r.body.candidates[1].parts = <<>>
    THEN Thrown("TypeError: cannot read properties of undefined")
    ELSE [threw |-> FALSE, error |-> NoError, output |-> <<>>,
          html |-> StripAllFences(r.body.candidates[1].parts[1]),
          finishReason |-> r.body.candidates[1].finishReason]

\* The ceiling of the one call this script makes for a record.
GenerateTokens == 8192

\* A check that looks for the normalized name.
htmlFile_Normalized(file) ==
    SelectSeq(ToLowerCase(ReplaceFirst(file, DotJson, <<>>)), IsLowerAlnum)
        \o DotHtml

\* The artifact the filter looks for: file.replace('.json', '.html').
htmlFile(file) == ReplaceFirst(file, DotJson, DotHtml)

\* A write under the normalized name.
outputFile_Normalized(file) ==
    SelectSeq(ToLowerCase(ReplaceFirst(file, DotJson, <<>>)), IsLowerAlnum)
        \o DotHtml

\* The artifact the loop writes: file.replace('.json', '.html').
outputFile(file) == ReplaceFirst(file, DotJson, DotHtml)

\* A filter that keeps every record.
newFiles_All(files, out) == files

\* "Filter to ONLY process files that DON'T have HTML yet".
newFiles(files, out) ==
    LET Missing(file) == htmlFile(file) \notin DOMAIN out
    IN  SelectSeq(files, Missing)

\* An artifact left by an earlier run.
OldText == <<"o","l","d">>

\* What public/proposal may hold before the run.
OldArtifacts ==
    { [n \in ns |-> OldText] :
        ns \in SUBSET { htmlFile(NameAcme), htmlFile(NameBeta),
                        <<"a","c","m","e","c","o">> \o DotHtml } }

MissingInit ==
    /\ proposalsDir \in
         { [k \in 1..Len(l) |-> [name |-> l[k], data |-> CatalogueData(l[k])]] :
             l \in Listings(MaxFiles) }
    /\ outputDir \in OldArtifacts
    /\ changeList = NoChangeList
    /\ jsonFiles = <<>>
    /\ results = <<>>
    /\ idx = 1
    /\ pc = "select"
    /\ proposalData = NoCompany
    /\ i = 0
    /\ retryAttempt = 0
    /\ response = NoResponse
    /\ calls = <<>>
    /\ outcomes = <<>>
    /\ writes = 0
    /\ outstanding = 0
    /\ summary = NoSummary
    /\ summaryWrites = 0
    /\ exitCode = 0
    /\ run = 1

\* The directory is listed and filtered; with nothing new the function
\* returns.
SelectMissing ==
    /\ pc = "select"
    /\ jsonFiles' = newFiles(JsonFilesOf(proposalsDir), outputDir)
    /\ idx' = 1
    /\ pc' = IF Len(jsonFiles') = 0 THEN "exited" ELSE "loop"
    /\ UNCHANGED <<proposalsDir, outputDir, results, locals, outstanding,
                   summary, summaryWrites, exitCode, changeList, run>>

\* The loop takes the next new file: it is read and parsed and the fetch
\* is issued.  A read or parse error reaches the catch of generateHTML,
\* which exits with status 1.
MissingStart ==
    /\ pc = "loop"
    /\ idx <= Len(jsonFiles)
    /\ LET data == ReadRecord(proposalsDir, jsonFiles[idx])
       IN  /\ proposalData' = data
           /\ outcomes' = <<>>
           /\ writes' = 0
           /\ IF ~data.parses
              THEN /\ pc' = "exited"
                   /\ exitCode' = 1
                   /\ calls' = <<>>
                   /\ UNCHANGED outstanding
              ELSE /\ calls' = <<GenerateTokens>>
                   /\ outstanding' = outstanding + 1
                   /\ pc' = "awaitFetch"
                   /\ UNCHANGED exitCode
    /\ UNCHANGED <<proposalsDir, outputDir, jsonFiles, results, idx, i,
                   retryAttempt, response, summary, summaryWrites,
                   changeList, run>>

\* The awaited fetch settles with r: the text is written under the name of
\* the record and the loop goes on, or an error reaches the catch of
\* generateHTML, which exits with status 1.
MissingFetchSettles ==
    /\ pc = "awaitFetch"
    /\ \E r \in Responses :
       \E out \in { GenerateTry(r) } :
       \E fsOk \in (IF out.threw THEN { FALSE } ELSE BOOLEAN) :
         /\ outcomes' = Append(outcomes, r)
         /\ outstanding' = outstanding - 1
         /\ IF fsOk
            THEN /\ outputDir' =
                      WriteFile(outputDir, outputFile(jsonFiles[idx]), out.html)
                 /\ writes' = writes + 1
                 /\ idx' = idx + 1
                 /\ pc' = "loop"
                 /\ UNCHANGED exitCode
            ELSE /\ pc' = "exited"
                 /\ exitCode' = 1
                 /\ UNCHANGED <<outputDir, writes, idx>>
    /\ UNCHANGED <<proposalsDir, jsonFiles, results, proposalData, i,
                   retryAttempt, response, calls, summary, summaryWrites,
                   changeList, run>>

\* After the loop generateHTML returns: the process ends with status 0.
MissingDone ==
    /\ pc = "loop"
    /\ idx > Len(jsonFiles)
    /\ pc' = "exited"
    /\ proposalData' = NoCompany
    /\ calls' = <<>>
    /\ outcomes' = <<>>
    /\ writes' = 0
    /\ UNCHANGED <<proposalsDir, outputDir, jsonFiles, results, idx, i,
                   retryAttempt, response, outstanding, summary,
                   summaryWrites, exitCode, changeList, run>>

\* The script is started again right after a run that ended with status 0,
\* over the same two directories.
RunAgain ==
    /\ pc = "exited"
    /\ exitCode = 0
    /\ run < MaxRuns
    /\ run' = run + 1
    /\ pc' = "select"
    /\ jsonFiles' = <<>>
    /\ idx' = 1
    /\ UNCHANGED <<proposalsDir, outputDir, results, locals, outstanding,
                   summary, summaryWrites, exitCode, changeList>>

MissingNext ==
    \/ SelectMissing
    \/ MissingStart
    \/ MissingFetchSettles
    \/ MissingDone
    \/ RunAgain

MissingSpec == MissingInit /\ [][MissingNext]_vars

\* ------------------------------- the delete-after-generation script

\* An unlink that removes nothing.
Unlink_Nothing(dir, name) == dir

\* fs.unlink: the entry is gone from the directory.
Unlink(dir, name) ==
    LET Other(e) == e.name # name
    IN  SelectSeq(dir, Other)

DeleteInit ==
    /\ proposalsDir \in
         { [k \in 1..Len(l) |-> [name |-> l[k], data |-> CatalogueData(l[k])]] :
             l \in Listings(MaxFiles) }
    /\ outputDir \in OldArtifacts
    /\ changeList = NoChangeList
    /\ jsonFiles = <<>>
    /\ results = <<>>
    /\ idx = 1
    /\ pc = "select"
    /\ proposalData = NoCompany
    /\ i = 0
    /\ retryAttempt = 0
    /\ response = NoResponse
    /\ calls = <<>>
    /\ outcomes = <<>>
    /\ writes = 0
    /\ outstanding = 0
    /\ summary = NoSummary
    /\ summaryWrites = 0
    /\ exitCode = 0
    /\ run = 1

\* The directory is listed; with no .json file the function returns.
DeleteSelect ==
    /\ pc = "select"
    /\ jsonFiles' = JsonFilesOf(proposalsDir)
    /\ idx' = 1
    /\ pc' = IF Len(jsonFiles') = 0 THEN "exited" ELSE "loop"
    /\ UNCHANGED <<proposalsDir, outputDir, results, locals, outstanding,
                   summary, summaryWrites, exitCode, changeList, run>>

\* The loop takes the next file: it is read and parsed and the fetch is
\* issued.  A read or parse error reaches the catch of generateHTML, which
\* exits with status 1.
DeleteStart ==
    /\ pc = "loop"
    /\ idx <= Len(jsonFiles)
    /\ LET data == ReadRecord(proposalsDir, jsonFiles[idx])
       IN  /\ proposalData' = data
           /\ outcomes' = <<>>
           /\ writes' = 0
           /\ IF ~data.parses
              THEN /\ pc' = "exited"
                   /\ exitCode' = 1
                   /\ calls' = <<>>
                   /\ UNCHANGED outstanding
              ELSE /\ calls' = <<GenerateTokens>>
                   /\ outstanding' = outstanding + 1
                   /\ pc' = "awaitFetch"
                   /\ UNCHANGED exitCode
    /\ UNCHANGED <<proposalsDir, outputDir, jsonFiles, results, idx, i,
                   retryAttempt, response, summary, summaryWrites,
                   changeList, run>>

\* The awaited fetch settles with r: the text is written under the name of
\* the record, then the record is unlinked and the loop goes on.  An error
\* thrown on the way, by the response handling, by writeFile (fsOk false)
\* or by unlink (unlinkOk false), reaches the catch of generateHTML, which
\* exits with status 1.
DeleteFetchSettles ==
    /\ pc = "awaitFetch"
    /\ \E r \in Responses :
       \E out \in { GenerateTry(r) } :
       \E fsOk \in (IF out.threw THEN { FALSE } ELSE BOOLEAN) :
       \E unlinkOk \in (IF fsOk THEN BOOLEAN ELSE { FALSE }) :
         /\ outcomes' = Append(outcomes, r)
         /\ outstanding' = outstanding - 1
         /\ IF fsOk
            THEN /\ outputDir' =
                      WriteFile(outputDir, outputFile(jsonFiles[idx]), out.html)
                 /\ writes' = writes + 1
            ELSE UNCHANGED <<outputDir, writes>>
         /\ IF unlinkOk
            THEN /\ proposalsDir' = Unlink(proposalsDir, jsonFiles[idx])
                 /\ idx' = idx + 1
                 /\ pc' = "loop"
                 /\ UNCHANGED exitCode
            ELSE /\ pc' = "exited"
                 /\ exitCode' = 1
                 /\ UNCHANGED <<proposalsDir, idx>>
    /\ UNCHANGED <<jsonFiles, results, proposalData, i, retryAttempt,
                   response, calls, summary, summaryWrites, changeList, run>>

\* After the loop generateHTML returns: the process ends with status 0.
DeleteDone ==
    /\ pc = "loop"
    /\ idx > Len(jsonFiles)
    /\ pc' = "exited"
    /\ proposalData' = NoCompany
    /\ calls' = <<>>
    /\ outcomes' = <<>>
    /\ writes' = 0
    /\ UNCHANGED <<proposalsDir, outputDir, jsonFiles, results, idx, i,
                   retryAttempt, response, outstanding, summary,
                   summaryWrites, exitCode, changeList, run>>

DeleteNext ==
    \/ DeleteSelect
    \/ DeleteStart
    \/ DeleteFetchSettles
    \/ DeleteDone

DeleteSpec == DeleteInit /\ [][DeleteNext]_vars

\* ------------------------------------------------------------ claims

\* processProposal has just returned or thrown for results[Len(results)]:
\* the locals are still those of that record.
RecordDone == pc = "loop" /\ results # <<>>

Last == results[Len(results)]

\* An attempt that ended with a non-OK response attributable to size.
RetryableFailure(o) ==
    /\ o.kind = "http"
    /\ ~o.ok
    /\ \/ o.status = 400
       \/ Includes(o.errorText, KwToken)
       \/ Includes(o.errorText, KwLimit)
       \/ Includes(o.errorText, KwInvalid)

\* An attempt that ended with a transport or availability error not
\* attributable to size.
RejectedError(o) ==
    \/ o.kind = "throw"
    \/ o.kind = "http" /\ ~o.ok /\ ~RetryableFailure(o)

\* An attempt that completed with the given finish reason.
FinishedWith(o, fr) ==
    /\ o.kind = "http"
    /\ o.ok
    /\ o.body.json
    /\ o.body.candidates # <<>>
    /\ o.body.candidates[1].finishReason = fr

\* An attempt blocked by policy.
PolicyBlock(o) == FinishedWith(o, "SAFETY")

\* C1 (as claimed): if every attempt for a record ends as a
\* RetryableFailure, the record's result is a failure and exactly three
\* calls were made, with ceilings 65000, 32000 and 16000 in that order.
C1_LadderExhausted ==
    (RecordDone /\ outcomes # <<>>
       /\ \A k \in 1..Len(outcomes) : RetryableFailure(outcomes[k]))
    => (~Last.success /\ calls = <<65000, 32000, 16000>>)

\* C2 (as claimed): if the first attempt for a record is Rejected (a policy
\* block, a non-OK response not attributable to size, or a thrown network
\* error), exactly one call is made for it and its result is a failure.
C2_NoRetryOnRejection ==
    (RecordDone /\ outcomes # <<>>
       /\ (RejectedError(outcomes[1]) \/ PolicyBlock(outcomes[1])))
    => (Len(calls) = 1 /\ ~Last.success)

\* The text of a completed attempt, or <<>> when it carries none.
TextOf(o) ==
    IF o.body.candidates # <<>> /\ o.body.candidates[1].parts # <<>>
    THEN o.body.candidates[1].parts[1]
    ELSE <<>>

\* The HTML check of the claim, on a normalized text.
PassesHtmlCheck(html) ==
    Includes(html, Doctype) \/ Includes(ToLowerCase(html), HtmlTag)

\* C3 (as claimed): if an attempt for a record completes with finish reason
\* MAX_TOKENS, exactly one attempt is made for the record, the artifact is
\* written and the result is a success with finishReason MAX_TOKENS.
C3_TruncationOriginal ==
    (RecordDone
       /\ \E k \in 1..Len(outcomes) : FinishedWith(outcomes[k], "MAX_TOKENS"))
    => /\ Len(calls) = 1
       /\ writes = 1
       /\ Last.success
       /\ Last.finishReason = "MAX_TOKENS"

\* C3 (amended): an attempt that completes with finish reason MAX_TOKENS is
\* the last attempt for its record (the first or the second): no further
\* call is made.  If its text passes the HTML check after normalisation,
\* then either the artifact is written once, holding the normalized text,
\* and the result is a success with finishReason MAX_TOKENS, or the write
\* failed and the result is a failure; if the text does not pass, the
\* result is a failure and nothing is written.
C3_Truncation ==
    \A k \in 1..Len(outcomes) :
      (RecordDone /\ FinishedWith(outcomes[k], "MAX_TOKENS"))
      => LET html == StripFences(TextOf(outcomes[k]))
         IN  /\ k = Len(outcomes)
             /\ Len(calls) = k
             /\ k <= 2
             /\ IF PassesHtmlCheck(html)
                THEN \/ /\ Last.success
                        /\ Last.finishReason = "MAX_TOKENS"
                        /\ writes = 1
                        /\ Last.output \in DOMAIN outputDir
                        /\ outputDir[Last.output] = html
                     \/ /\ ~Last.success
                        /\ Last.error = "write failed"
                        /\ writes = 0
                ELSE ~Last.success /\ writes = 0

\* C3 witness: a record whose second attempt was truncated and written.
C3_Witness ==
    /\ RecordDone
    /\ Len(outcomes) = 2
    /\ FinishedWith(outcomes[2], "MAX_TOKENS")
    /\ Last.success
    /\ Last.finishReason = "MAX_TOKENS"
    /\ writes = 1

Inputs(rs) == [k \in 1..Len(rs) |-> rs[k].input]

LoopFinished == pc \in { "summarized", "exited" }

\* C4: in a batch of N selected records where some record fails terminally
\* (API error, rejection, invalid output, read/parse error, write error),
\* every record gets exactly one result, in its own position, and the
\* records after the failed one are processed as if it had not failed: the
\* loop goes on to the next record, which starts from the same fresh locals
\* and the first rung of the ladder.
C4_BatchIsolation ==
    /\ Len(results) = idx - 1
    /\ Len(results) <= Len(jsonFiles)
    /\ \A k \in 1..Len(results) : results[k].input = jsonFiles[k]
    /\ LoopFinished => Len(results) = Len(jsonFiles)
    /\ (RecordDone /\ ~Last.success /\ idx <= Len(jsonFiles))
         => ENABLED StartRecord
    /\ (pc = "awaitFetch" /\ outcomes = <<>>)
         => /\ calls = <<65000>>
            /\ retryAttempt = 0
            /\ i = 0
            /\ response = NoResponse
            /\ writes = 0
            /\ proposalData = ReadRecord(proposalsDir, jsonFiles[idx])

\* C4 witness: the first record failed terminally after a call and the
\* second one was still processed, successfully.
C4_Witness ==
    /\ pc = "exited"
    /\ Len(results) = 2
    /\ ~results[1].success
    /\ results[1].error = "Gemini API error: 500"
    /\ results[2].success

HasFailure(rs) == \E k \in 1..Len(rs) : ~rs[k].success

\* C5 (as claimed): the process ends with a failure exit code if and only
\* if at least one per-record result is a failure.
C5_ExitCodeOriginal ==
    pc = "exited" => (exitCode # 0 <=> HasFailure(results))

\* C5 (amended): once the record loop has run, the process ends with a
\* failure exit code if and only if at least one per-record result is a
\* failure or writing the summary threw; a run with no failure (a run over
\* zero records included) whose summary was written ends with success.
C5_ExitCode ==
    pc = "exited"
    => /\ exitCode \in { 0, 1 }
       /\ exitCode = 1 <=> (HasFailure(results) \/ ~summary.written)

\* C5 witness: a run of two records, one failed and one generated, that
\* wrote its summary and exited with status 1.
C5_Witness ==
    /\ pc = "exited"
    /\ exitCode = 1
    /\ summary.written
    /\ Len(results) = 2
    /\ results[1].success
    /\ ~results[2].success

\* C6: records are processed one at a time in selector order: a call is
\* outstanding only while the record at the loop's position is being
\* processed and every record before it has its result, at most one call
\* is outstanding at any time, and the results list the selected
\* identifiers in the selector's order.
C6_Sequential ==
    /\ outstanding \in { 0, 1 }
    /\ outstanding = 1 <=> pc \in { "awaitFetch", "hung" }
    /\ outstanding = 1
         => /\ idx <= Len(jsonFiles)
            /\ Len(results) = idx - 1
            /\ Len(calls) = Len(outcomes) + 1
    /\ Len(results) <= Len(jsonFiles)
    /\ Inputs(results) = SubSeq(jsonFiles, 1, Len(results))
    /\ LoopFinished => Inputs(results) = jsonFiles

\* C6 witness: the second record's call is outstanding and the first
\* record, which needed calls too, already has its result.
C6_Witness ==
    /\ pc = "awaitFetch"
    /\ outstanding = 1
    /\ idx = 2
    /\ Len(results) = 1
    /\ results[1].success

\* C7 (as claimed): whenever the record loop has finished, the summary has
\* been written exactly once and its results are the per-record results.
C7_SummaryOriginal ==
    LoopFinished => (summaryWrites = 1 /\ summary.written
                       /\ summary.results = results)

\* C7 (amended): the summary is written at most once, only after the last
\* per-record result; when the write succeeds it happens before the exit
\* status is decided, whether or not a record failed, and its results are
\* exactly the in-memory results; when the write throws, no summary exists
\* and the process exits with status 1.
C7_Summary ==
    /\ summaryWrites \in { 0, 1 }
    /\ summary.written <=> summaryWrites = 1
    /\ summary.written
         => /\ LoopFinished
            /\ Len(results) = Len(jsonFiles)
            /\ summary.results = results
    /\ pc = "summarized" => summary.written
    /\ pc = "exited" => (summary.written \/ exitCode = 1)
    /\ (pc = "exited" /\ exitCode = 0) => summary.written

\* C7 witness: a run with a failed record that wrote its summary and exited.
C7_Witness ==
    /\ pc = "exited"
    /\ summary.written
    /\ summaryWrites = 1
    /\ HasFailure(results)
    /\ \E k \in 1..Len(results) : results[k].success

\* C8 (as claimed): an attempt the service never answers ends, the record
\* gets its result and the run terminates.
C8_TimeoutBounded == (pc = "hung") ~> (pc = "exited")

\* An attempt that completed with a candidate carrying a text.
CompletedWithText(o) ==
    /\ o.kind = "http"
    /\ o.ok
    /\ o.body.json
    /\ o.body.candidates # <<>>
    /\ o.body.candidates[1].hasContent
    /\ o.body.candidates[1].parts # <<>>

\* C9: when a call completes successfully but the normalized text is empty
\* or contains neither '<!DOCTYPE html>' nor, case-insensitively, '<html',
\* the record's result is a failure and no artifact is written for it.
C9_InvalidOutput ==
    (RecordDone /\ outcomes # <<>>
       /\ CompletedWithText(outcomes[Len(outcomes)])
       /\ LET html == StripFences(TextOf(outcomes[Len(outcomes)]))
          IN  \/ html = <<>>
              \/ /\ ~Includes(html, Doctype)
                 /\ ~Includes(ToLowerCase(html), HtmlTag))
    => (~Last.success /\ writes = 0)

\* C9 witness: a STOP response whose text is only a pair of code fences,
\* so normalizes to the empty text, ended the record as a failure.
C9_Witness ==
    /\ RecordDone
    /\ outcomes # <<>>
    /\ FinishedWith(outcomes[Len(outcomes)], "STOP")
    /\ TextOf(outcomes[Len(outcomes)]) = TextFenceOnly
    /\ ~Last.success
    /\ Last.error = "Invalid HTML output from Gemini"

\* Lowercase, then drop every character outside a-z and 0-9.
RECURSIVE KeepAlnum(_)
KeepAlnum(s) ==
    IF s = <<>> THEN <<>>
    ELSE LET c == LowerChar(Head(s))
         IN  (IF IsLowerAlnum(c) THEN <<c>> ELSE <<>>) \o KeepAlnum(Tail(s))

Declared(v) == v # Undefined /\ v # <<>>

\* The organization name a record declares, <<>> when it declares none.
DeclaredName(d) ==
    CASE Declared(d.company_name) -> d.company_name
      [] ~Declared(d.company_name) /\ Declared(d.companyName) -> d.companyName
      [] ~Declared(d.company_name) /\ ~Declared(d.companyName)
           /\ Declared(d.company) -> d.company
      [] OTHER -> <<>>

Named == pc = "named" /\ Len(results) = 1

\* C10 (as claimed): the artifact name is the declared organization name
\* lowercased with every character outside a-z and 0-9 removed, followed by
\* '.html'; when none is declared it is the source file name with '.json'
\* replaced by '.html'.
C10_NamingOriginal ==
    Named
    => results[1].output =
         IF DeclaredName(proposalData) # <<>>
         THEN KeepAlnum(DeclaredName(proposalData)) \o DotHtml
         ELSE ReplaceFirst(jsonFiles[1], DotJson, DotHtml)

\* C10 (amended): the artifact name is a function of the record alone: the
\* first non-empty of company_name, companyName and company, or, when all
\* are absent or empty, the source file name with its first '.json'
\* removed; that string lowercased with every character outside a-z and
\* 0-9 removed, followed by '.html'.  So a file name is lowercased and
\* stripped too, and only a name of lowercase letters and digits keeps its
\* stem.
C10_Naming ==
    Named
    => LET d    == proposalData
           stem == ReplaceFirst(jsonFiles[1], DotJson, <<>>)
       IN  /\ results[1].output =
                KeepAlnum(IF DeclaredName(d) # <<>> THEN DeclaredName(d)
                          ELSE stem) \o DotHtml
           /\ (DeclaredName(d) = <<>> /\ \A k \in 1..Len(stem) : IsLowerAlnum(stem[k]))
                => results[1].output = ReplaceFirst(jsonFiles[1], DotJson, DotHtml)

\* C10 witness: a record with no organization name whose file name has an
\* upper-case letter and a hyphen was named from the stripped file name.
C10_Witness ==
    /\ Named
    /\ DeclaredName(proposalData) = <<>>
    /\ jsonFiles[1] = <<"a","B","-">> \o DotJson
    /\ results[1].output = <<"a","b">> \o DotHtml

\* An attempt that ended with an HTTP error that is not size-related.
OtherHttpError(o) == o.kind = "http" /\ ~o.ok /\ ~RetryableFailure(o)

\* C18: whatever the attempts of a record end with, at most 2 calls are made
\* for it, the first with ceiling 65000 and the second with ceiling 32000;
\* every call but the last one ended without an OK response.
C18_AtMostTwoCalls ==
    /\ Len(calls) <= maxRetries
    /\ \A k \in 1..Len(calls) : calls[k] = <<65000, 32000>>[k]
    /\ Len(outcomes) <= Len(calls)
    /\ \A k \in 1..Len(outcomes) : k < Len(calls) => ~outcomes[k].ok

\* C18 witness: a record got its second call, with ceiling 32000, after a
\* first attempt that ended with an HTTP error that is not size-related,
\* and that second attempt has ended with a thrown network error.
C18_Witness ==
    /\ RecordDone
    /\ calls = <<65000, 32000>>
    /\ Len(outcomes) = 2
    /\ OtherHttpError(outcomes[1])
    /\ outcomes[2].kind = "throw"

\* C17: an artifact changes only when a record completes with success, and
\* it then holds exactly the normalized text of that record's last attempt,
\* whatever was at that name before; every other artifact stays as it was.
C17_LastWriteWins ==
    [][ /\ \A n \in DOMAIN outputDir : n \in DOMAIN outputDir'
        /\ \A n \in DOMAIN outputDir' :
             IF /\ Len(results') > Len(results)
                /\ results'[Len(results')].success
                /\ results'[Len(results')].output = n
             THEN outputDir'[n] = StripFences(TextOf(outcomes'[Len(outcomes')]))
             ELSE n \in DOMAIN outputDir /\ outputDir'[n] = outputDir[n] ]_vars

\* C17 witness: two records of one run derived the same artifact name, both
\* succeeded, and the artifact holds the text of the later one, which is
\* not the text every other page of the catalogue normalizes to.
C17_Witness ==
    /\ RecordDone
    /\ Len(results) = 2
    /\ results[1].success /\ results[2].success
    /\ results[1].input # results[2].input
    /\ results[1].output = results[2].output
    /\ DOMAIN outputDir = { results[2].output }
    /\ TextOf(outcomes[Len(outcomes)]) = TextUpper
    /\ outputDir[results[2].output] = <<"<","H","T","M","L",">">>

\* A line of the change list that names a proposal record for the selector
\* in use: the git selector wants a path under data/proposals/ ending in
\* .json, the CHANGED_FILES selector a line that ends in .json once trimmed.
NamesRecord(line, via) ==
    IF via = "git"
    THEN MatchAt(line, DataProposals, 1) /\ EndsWith(line, DotJson)
    ELSE EndsWith(Trim(line), DotJson)

\* The change list yields no identifier: there is none, or no line of it
\* names a record.
YieldsNone(cl) ==
    \/ ~cl.ok
    \/ \A k \in 1..Len(Split(cl.text)) : ~NamesRecord(Split(cl.text)[k], cl.via)

\* The selection is over.
Selected == pc = "loop" /\ changeList.via \in { "env", "git" }

\* C11: when the change list of a changed-files selector yields no
\* identifier, the selected sequence is every record of the store whose
\* name ends in .json, in directory-listing order.
C11_FallbackToAll ==
    (Selected /\ YieldsNone(changeList))
    => LET names == [k \in 1..Len(proposalsDir) |-> proposalsDir[k].name]
           IsJson(n) == EndsWith(n, DotJson)
       IN  jsonFiles = SelectSeq(names, IsJson)

\* C11 witness: a change list that was supplied but names only a file that
\* is not .json made the selector take both records of a two-record store
\* that also holds a file that is not a record.
C11_Witness ==
    /\ Selected
    /\ changeList.ok
    /\ changeList.text = <<"R","E","A","D","M","E",".","m","d","NL">>
    /\ Len(proposalsDir) = 2
    /\ proposalsDir[1].name = NameMd
    /\ jsonFiles = <<proposalsDir[2].name>>

\* C15: the selected sequence holds no identifier more than once.
C15_NoDuplicates ==
    Selected
    => \A a, b \in 1..Len(jsonFiles) : a # b => jsonFiles[a] # jsonFiles[b]

\* The run of a changed-files script is over.
ChangedRunOver == pc = "exited" /\ changeList.via \in { "env", "git" }

\* C16: in the changed-files scripts every selected identifier gets a
\* result, in order, and an identifier whose source file cannot be read or
\* parsed gets a failure result.
C16_UnreadableIsolated ==
    ChangedRunOver
    => /\ Len(results) = Len(jsonFiles)
       /\ \A k \in 1..Len(results) :
            /\ results[k].filename = jsonFiles[k]
            /\ ~ReadRecord(proposalsDir, jsonFiles[k]).parses
                 => ~results[k].success

\* The artifact that corresponds to a record in the missing-output script:
\* the name of the record with .html for .json.
ArtifactOf(n) == ReplaceFirst(n, DotJson, DotHtml)

\* The names of the .json records of the store, in listing order.
StoreRecords ==
    LET names == [k \in 1..Len(proposalsDir) |-> proposalsDir[k].name]
        IsJson(n) == EndsWith(n, DotJson)
    IN  SelectSeq(names, IsJson)

\* Record n of the store was not selected.
Skipped(n) ==
    /\ \E k \in 1..Len(StoreRecords) : StoreRecords[k] = n
    /\ \A k \in 1..Len(jsonFiles) : jsonFiles[k] # n

\* C12: the selection step selects exactly the .json records that have no
\* corresponding artifact, in listing order; afterwards no call is issued
\* for a record that was not selected and its artifact is there and stays
\* as it is.
C12_MissingOnly ==
    [][ /\ pc = "select"
           => LET NoArtifact(n) == ArtifactOf(n) \notin DOMAIN outputDir
              IN  jsonFiles' = SelectSeq(StoreRecords, NoArtifact)
        /\ pc \in { "loop", "awaitFetch" }
           => \A k \in 1..Len(StoreRecords) :
                LET n == StoreRecords[k]
                IN  Skipped(n)
                    => /\ ArtifactOf(n) \in DOMAIN outputDir
                       /\ ArtifactOf(n) \in DOMAIN outputDir'
                       /\ outputDir'[ArtifactOf(n)] = outputDir[ArtifactOf(n)]
                       /\ (outstanding' > outstanding => jsonFiles[idx] # n)
      ]_vars

\* C12 witness: of two records the first has its artifact and the second
\* has not; the second alone was selected and written, and the artifact of
\* the first is still the old one.
C12_Witness ==
    /\ pc = "loop"
    /\ idx = 2
    /\ Len(StoreRecords) = 2
    /\ jsonFiles = <<StoreRecords[2]>>
    /\ writes = 1
    /\ ArtifactOf(StoreRecords[1]) \in DOMAIN outputDir
    /\ outputDir[ArtifactOf(StoreRecords[1])] = OldText
    /\ outputDir[ArtifactOf(StoreRecords[2])] = TextPlain

\* One record of a two-record store (A) has its artifact from an earlier
\* run, the other (B) has not, and the first run is past its selection.
AHasArtifactBHasNone(a, b) ==
    /\ run = 1
    /\ pc # "select"
    /\ Len(StoreRecords) = 2
    /\ { a, b } = { StoreRecords[1], StoreRecords[2] }
    /\ a # b
    /\ ArtifactOf(a) \in DOMAIN outputDir
    /\ outputDir[ArtifactOf(a)] = OldText
    /\ ArtifactOf(b) \in DOMAIN outputDir => outputDir[ArtifactOf(b)] # OldText

\* The one call made for the one selected record has ended with a text and
\* the text has been written.
FirstCallSucceeded ==
    pc = "loop" /\ idx = 2 /\ Len(outcomes) = 1 /\ writes = 1

\* C13 (as claimed): with A's artifact present and B's missing, only B is
\* processed, and when B's first call succeeds the text is stored under
\* the name derived from the organization name B declares: lowercased,
\* characters outside a-z and 0-9 dropped, .html appended.
C13_NamingOriginal ==
    \A a, b \in { proposalsDir[k].name : k \in 1..Len(proposalsDir) } :
        AHasArtifactBHasNone(a, b)
        => /\ jsonFiles = <<b>>
           /\ (FirstCallSucceeded /\ DeclaredName(proposalData) # <<>>)
                => LET name == KeepAlnum(DeclaredName(proposalData)) \o DotHtml
                   IN  /\ name \in DOMAIN outputDir
                       /\ outputDir[name] = StripAllFences(TextOf(outcomes[1]))

\* C13: with A's artifact present and B's missing, only B is processed,
\* with one call, and when that call succeeds the text is stored under B's
\* file name with .html for .json, whatever organization name B declares;
\* every other artifact is the old one.
C13_OnlyMissingProcessed ==
    \A a, b \in { proposalsDir[k].name : k \in 1..Len(proposalsDir) } :
        AHasArtifactBHasNone(a, b)
        => /\ jsonFiles = <<b>>
           /\ Len(calls) <= 1
           /\ FirstCallSucceeded
                => /\ ArtifactOf(b) \in DOMAIN outputDir
                   /\ outputDir[ArtifactOf(b)] = StripAllFences(TextOf(outcomes[1]))
                   /\ \A n \in DOMAIN outputDir \ { ArtifactOf(b) } :
                        outputDir[n] = OldText

\* C13 witness: A is Beta-1.json with Beta-1.html present, B is acme.json,
\* which declares "Acme Co."; B's fenced page was written, without its
\* fences, to acme.html and there is no acmeco.html.
C13_Witness ==
    /\ AHasArtifactBHasNone(NameBeta, NameAcme)
    /\ FirstCallSucceeded
    /\ TextOf(outcomes[1]) = TextFenced
    /\ DOMAIN outputDir = { ArtifactOf(NameBeta), ArtifactOf(NameAcme) }
    /\ outputDir[<<"a","c","m","e">> \o DotHtml] = TextPlain \o <<"NL">>

\* C20: in a run that follows a run that ended with status 0, nothing is
\* selected, no call is issued and no artifact is written or changed.
C20_SecondRunIdle ==
    [][ run >= 2
        => /\ jsonFiles' = <<>>
           /\ calls' = <<>>
           /\ outstanding' = outstanding
           /\ writes' = 0
           /\ outputDir' = outputDir
           /\ proposalsDir' = proposalsDir
           /\ pc' \in { "select", "exited" } ]_vars

\* C20 witness: the first run generated the two records of the store, and
\* the second run has ended having selected nothing.
C20_Witness ==
    /\ run = 2
    /\ pc = "exited"
    /\ exitCode = 0
    /\ jsonFiles = <<>>
    /\ Len(StoreRecords) = 2
    /\ \A k \in 1..2 :
         /\ ArtifactOf(StoreRecords[k]) \in DOMAIN outputDir
         /\ outputDir[ArtifactOf(StoreRecords[k])] # OldText

\* C14: no step of a run changes the source store: the records it holds
\* and their contents stay as they were.
C14_StoreImmutable == [][proposalsDir' = proposalsDir]_vars

\* Record n is in the source store.
InStore(n) == \E k \in 1..Len(proposalsDir) : proposalsDir[k].name = n

\* This run has written the artifact of record n.
WrittenNow(n) ==
    ArtifactOf(n) \in DOMAIN outputDir /\ outputDir[ArtifactOf(n)] # OldText

\* The run has stopped at record idx with a failure exit.
StoppedAtRecord == pc = "exited" /\ exitCode = 1 /\ idx <= Len(jsonFiles)

\* C19 (as claimed): a record is out of the store only if its artifact has
\* been written; a run ends with status 1 exactly when it stopped at a
\* record; then every record before that one has its artifact written and
\* its source removed, and that record and the later ones are in the store
\* with no artifact written by this run.
C19_DeleteOriginal ==
    /\ \A k \in 1..Len(jsonFiles) : ~InStore(jsonFiles[k]) => WrittenNow(jsonFiles[k])
    /\ StoppedAtRecord
         => /\ \A k \in 1..(idx - 1) :
                 WrittenNow(jsonFiles[k]) /\ ~InStore(jsonFiles[k])
            /\ \A k \in idx..Len(jsonFiles) :
                 InStore(jsonFiles[k]) /\ ~WrittenNow(jsonFiles[k])

\* C19: a record is out of the store only if its artifact has been
\* written; when the run has stopped at a record with status 1, every
\* record before it has its artifact written and its source removed, that
\* record and the later ones are in the store, no artifact has been
\* written for the later ones, and one has been written for that record
\* exactly when the step that failed came after the write.
C19_DeleteAfterWrite ==
    /\ \A k \in 1..Len(jsonFiles) : ~InStore(jsonFiles[k]) => WrittenNow(jsonFiles[k])
    /\ (pc = "exited" /\ exitCode = 1) => idx <= Len(jsonFiles)
    /\ StoppedAtRecord
         => /\ \A k \in 1..(idx - 1) :
                 WrittenNow(jsonFiles[k]) /\ ~InStore(jsonFiles[k])
            /\ \A k \in idx..Len(jsonFiles) : InStore(jsonFiles[k])
            /\ \A k \in (idx + 1)..Len(jsonFiles) : ~WrittenNow(jsonFiles[k])
            /\ WrittenNow(jsonFiles[idx]) <=> writes = 1

\* C19 witness: the first of two records was generated and removed, the
\* call for the second ended with an HTTP error, and the run stopped with
\* the second record in the store and without an artifact.
C19_Witness ==
    /\ StoppedAtRecord
    /\ Len(jsonFiles) = 2
    /\ idx = 2
    /\ Len(proposalsDir) = 1
    /\ proposalsDir[1].name = jsonFiles[2]
    /\ WrittenNow(jsonFiles[1])
    /\ Len(outcomes) = 1
    /\ ~outcomes[1].ok
    /\ ~WrittenNow(jsonFiles[2])

\* The failures the service side causes: the call itself, a rejection, an
\* invalid response, invalid output.
ServiceFailures ==
    { "request failed",
      "Gemini API error: 400", "Gemini API error: 429",
      "Gemini API error: 500", "Gemini API error",
      "Failed to get valid response from Gemini after all retries",
      "invalid json response body",
      "Invalid Gemini response",
      "TypeError: cannot read text of undefined",
      "Content was blocked by safety filters",
      "Invalid HTML output from Gemini" }

\* C21: the output store changes only by a write; a write is the only one
\* of its record, comes when every call of the record has ended and none
\* is issued with it, and ends the record as a success; a record that ends
\* as a success has had exactly one write, and a record that ends as a
\* failure caused by the service side has had none and leaves the output
\* store as it was.
C21_WriteResultAgree ==
    [][ /\ outputDir' # outputDir => writes' = writes + 1
        /\ writes' > writes
             => /\ writes' = 1
                /\ calls' = calls
                /\ Len(outcomes') = Len(calls)
                /\ outstanding' = 0
                /\ Len(results') = Len(results) + 1
                /\ results'[Len(results')].success
        /\ Len(results') > Len(results)
             => LET r == results'[Len(results')]
                IN  /\ r.success => (writes' = 1 /\ writes = 0)
                    /\ (~r.success /\ r.error \in ServiceFailures)
                         => (writes' = 0 /\ writes = 0 /\ outputDir' = outputDir)
      ]_vars

\* C21 witness: the first record failed on invalid output and nothing was
\* written for it; the second succeeded on its second call and its one
\* write is the only artifact.
C21_Witness ==
    /\ RecordDone
    /\ Len(results) = 2
    /\ ~results[1].success
    /\ results[1].error = "Invalid HTML output from Gemini"
    /\ results[2].success
    /\ calls = <<65000, 32000>>
    /\ Len(outcomes) = 2
    /\ writes = 1
    /\ DOMAIN outputDir = { results[2].output }

====
